---- MODULE Spec2Model ----
(***************************************************************************)
(* Squelch / voice-activity gated recorder (record.py).                    *)
(*                                                                         *)
(* The capture loop of record() is modelled statement by statement: pc     *)
(* names the statement the loop is about to execute, so that an            *)
(* asynchronous KeyboardInterrupt, a failing read, a failing classifier    *)
(* and a failing sink write can each leave the loop where the code lets    *)
(* them.  Samples are kept as the signed 16-bit integers the bytes encode, *)
(* i.e. in units of 1/32768 of full scale (Q15); thresholds use the same   *)
(* unit.                                                                   *)
(***************************************************************************)
EXTENDS Integers, Sequences, FiniteSets, TLC

(***************************************************************************)
(* Bounds of the model.                                                    *)
(***************************************************************************)
MaxFrames == 11      \* frames the source delivers before the model stops reading
FrameLen == 4        \* bytes in a frame of a session with a positive chunk size

(***************************************************************************)
(* Program constants.                                                      *)
(***************************************************************************)
Rate == 8000                 \* record(rate=8000)
Channels == 1                \* record(channels=1)
DefaultFrameDuration == 30   \* record(frame_duration=30)
DefaultSqlDuration == 300    \* record(sql_duration=300)
DefaultThresholdDb == -120   \* record(sql_threshold_db=-120)

Min(a, b) == IF a < b THEN a ELSE b

(***************************************************************************)
(* Signal math.                                                            *)
(***************************************************************************)
RECURSIVE Pow(_, _)
Pow(b, n) == IF n = 0 THEN 1 ELSE b * Pow(b, n - 1)

RECURSIVE unsigned_from_bytes(_)
\* int.from_bytes(b, "little") before the sign is applied
unsigned_from_bytes(b) ==
    IF b = << >> THEN 0 ELSE Head(b) + 256 * unsigned_from_bytes(Tail(b))

\* Variant of line 18 that decodes with signed=False
int_from_bytes_unsigned(b) == unsigned_from_bytes(b)

\* int.from_bytes(b, "little", signed=True)
int_from_bytes(b) ==
    LET u == unsigned_from_bytes(b)
        w == Pow(256, Len(b))
    IN  IF Len(b) > 0 /\ 2 * u >= w THEN u - w ELSE u

\* bytes_to_float, in units of 1/32768: the division by 1 << 15 is exact in
\* binary floating point, so the integer numerator carries the whole value.
bytes_to_float(b) == int_from_bytes(b)

\* frame[i:i + 2] for the 0-based offset i (Python slices clip at the end)
Slice2(frame, i) == SubSeq(frame, i + 1, Min(i + 2, Len(frame)))

\* Variant of lines 22-25 that walks the whole frame: range(0, len(frame), 2)
frame_to_wave_full(frame) ==
    LET n == (Len(frame) + 1) \div 2
    IN  [k \in 1..n |-> bytes_to_float(Slice2(frame, 2 * (k - 1)))]

\* [bytes_to_float(frame[i:i + 2]) for i in range(0, len(frame) // 2, 2)]
frame_to_wave(frame) ==
    LET half == Len(frame) \div 2
        n == (half + 1) \div 2
    IN  [k \in 1..n |-> bytes_to_float(Slice2(frame, 2 * (k - 1)))]

RECURSIVE max(_)
\* max(wave) of a non-empty list
max(wave) ==
    IF Len(wave) = 1 THEN wave[1]
    ELSE LET m == max(Tail(wave)) IN IF wave[1] >= m THEN wave[1] ELSE m

\* max() of an empty list raises ValueError
squelch_raises(frame) == frame_to_wave(frame) = << >>

\* squelch(frame, threshold): max(wave) >= threshold
squelch(frame, threshold) == max(frame_to_wave(frame)) >= threshold

\* dB_to_percent(dB) = 10 ** (dB / 20), in units of 1/32768 and rounded up to
\* the next integer: samples are integers in that unit, so s/32768 >= 10**(dB/20)
\* exactly when s >= ceil(32768 * 10**(dB/20)).  Tabulated for the dB values used.
dB_to_percent(dB) ==
    CASE dB = 0    -> 32768      \* 1.0
      [] dB = -6   -> 16423      \* 0.501187...
      [] dB = -20  -> 3277       \* 0.1
      [] dB = -120 -> 1          \* 0.000001

(***************************************************************************)
(* Configurations (the arguments of record) and the frames of the source.  *)
(***************************************************************************)
SqlDurations == {0, 50, DefaultSqlDuration}
FrameDurations == {0, DefaultFrameDuration}
ThresholdDbs == {DefaultThresholdDb, 6}

Configs ==
    [sql_duration : SqlDurations, frame_duration : FrameDurations,
     sql_threshold_db : ThresholdDbs, use_vad : BOOLEAN]

\* sql_threshold_db = min(sql_threshold_db, 0); sql_threshold = dB_to_percent(...)
sql_threshold(c) == dB_to_percent(Min(c.sql_threshold_db, 0))

\* chunk_size = channels * rate * frame_duration // 1000
chunk_size(c) == (Channels * Rate * c.frame_duration) \div 1000

\* A frame whose first sample is 0x4000 (half of full scale), all else zero
LoudFrame == [i \in 1..FrameLen |-> IF i = 2 THEN 64 ELSE 0]
\* A frame of zero samples
SilentFrame == [i \in 1..FrameLen |-> 0]

\* in_stream.read(chunk_size): what the device can hand back
SourceFrames(c) == IF chunk_size(c) > 0 THEN {LoudFrame, SilentFrame} ELSE {<< >>}

(***************************************************************************)
(* State.                                                                  *)
(***************************************************************************)
VARIABLES
    cfg,             \* the arguments of record()
    pc,              \* statement the loop is at: read, squelch, vad, write, timer, done
    frame,           \* the local `frame`
    has_voice,       \* the local `has_voice`
    sql_open,        \* the local `sql_open`
    sql_open_time,   \* the local `sql_open_time`
    sink,            \* frames handed to wav_out.writeframes, each with its arrival index
    wav_open,        \* wav_out not yet closed
    in_stream_open,  \* in_stream not yet closed
    exc,             \* exception that left the loop, "None" while it runs
    raised,          \* exception record() surfaces to its caller, "None" if none
    exitPc,          \* statement the loop was at when it was left
    nframes,         \* frames read from the source so far
    sq,              \* squelch result of the current frame ("none" before line 82)
    asked,           \* the classifier was queried for the current frame
    ans,             \* the classifier's answer for the current frame
    written,         \* the current frame was handed to the sink
    events,          \* log lines of the current frame
    speechSinceOpen, \* the classifier answered true since the gate last opened
    onScript,        \* the frames so far are: one loud frame, then silent frames
    loudRun,         \* completed frames in a row, up to now, that satisfied squelch
    closedInRun,     \* "SQL closed" was logged during the current loud run
    quietRun         \* frames in a row, up to now, that failed squelch with the gate open

vars ==
    <<cfg, pc, frame, has_voice, sql_open, sql_open_time, sink, wav_open,
      in_stream_open, exc, raised, exitPc, nframes, sq, asked, ans, written,
      events, speechSinceOpen, onScript, loudRun, closedInRun, quietRun>>

gate == <<has_voice, sql_open, sql_open_time>>
perFrame == <<sq, asked, ans, written, events>>
monitors == <<speechSinceOpen, onScript, loudRun, closedInRun, quietRun>>
resources == <<wav_open, in_stream_open, exc, raised, exitPc>>

\* Lines 62-77: the sink and the stream are opened, the gate starts closed.
Init ==
    /\ cfg \in Configs
    /\ pc = "read"
    /\ frame = << >>
    /\ has_voice = FALSE
    /\ sql_open = FALSE
    /\ sql_open_time = 0
    /\ sink = << >>
    /\ wav_open = TRUE
    /\ in_stream_open = TRUE
    /\ exc = "None"
    /\ raised = "None"
    /\ exitPc = "none"
    /\ nframes = 0
    /\ sq = "none"
    /\ asked = FALSE
    /\ ans = FALSE
    /\ written = FALSE
    /\ events = {}
    /\ speechSinceOpen = FALSE
    /\ onScript = TRUE
    /\ loudRun = 0
    /\ closedInRun = FALSE
    /\ quietRun = 0

(***************************************************************************)
(* Leaving the loop: `with suppress(KeyboardInterrupt), wave.open(...)`.   *)
(***************************************************************************)
\* suppress(KeyboardInterrupt).__exit__: the exceptions it swallows
SuppressesAll(e) == TRUE
SuppressesNone(e) == FALSE
Suppresses(e) == e = "KeyboardInterrupt"

\* An exception e propagates out of the while loop: Wave_write.__exit__ closes the
\* sink, suppress() decides whether the caller sees e.  Nothing closes in_stream.
Unwind(e) ==
    /\ pc' = "done"
    /\ exitPc' = pc
    /\ exc' = e
    /\ raised' = IF Suppresses(e) THEN "None" ELSE e
    /\ wav_open' = FALSE
    /\ in_stream_open' = in_stream_open
    /\ UNCHANGED <<cfg, frame, gate, sink, nframes, perFrame, monitors>>

(***************************************************************************)
(* The gate: the three locals of the loop as one record.                   *)
(***************************************************************************)
Gate(open, voice, time) == [sql_open |-> open, has_voice |-> voice, sql_open_time |-> time]

\* Variant of lines 82-86 that resets the timer only when the gate opens
squelch_step_edge(g, s) ==
    IF s THEN Gate(TRUE, g.has_voice, IF g.sql_open THEN g.sql_open_time ELSE 0) ELSE g

\* Variant of lines 82-86 without line 85
squelch_step_noopen(g, s) ==
    IF s THEN Gate(g.sql_open, g.has_voice, 0) ELSE g

\* Lines 82-86: a frame that satisfies squelch opens the gate and resets the timer
squelch_step(g, s) ==
    IF s THEN Gate(TRUE, g.has_voice, 0) ELSE g

\* Variant of lines 88-89 without the `continue`
after_gate_no_continue(open) == "vad"

\* Lines 88-89: `if not sql_open: continue`, else on to line 91
after_gate(open) == IF open THEN "vad" ELSE "read"

\* Variant of line 95 that ignores the voice confirmation
emit_always(use_vad, voice) == TRUE

\* Line 95: not use_vad or (use_vad and has_voice)
emit(use_vad, voice) == ~use_vad \/ (use_vad /\ voice)

\* Variant of lines 98-103 that closes one frame early
hang_timer_early(g, c) ==
    IF g.sql_open_time + c.frame_duration < c.sql_duration
    THEN Gate(g.sql_open, g.has_voice, g.sql_open_time + c.frame_duration)
    ELSE Gate(FALSE, FALSE, g.sql_open_time)

\* Variant of lines 98-103 that compares with <=
hang_timer_le(g, c) ==
    IF g.sql_open_time <= c.sql_duration
    THEN Gate(g.sql_open, g.has_voice, g.sql_open_time + c.frame_duration)
    ELSE Gate(FALSE, FALSE, g.sql_open_time)

\* Variant of lines 98-103 that keeps has_voice over a close
hang_timer_keeps_voice(g, c) ==
    IF g.sql_open_time < c.sql_duration
    THEN Gate(g.sql_open, g.has_voice, g.sql_open_time + c.frame_duration)
    ELSE Gate(FALSE, g.has_voice, g.sql_open_time)

\* Lines 98-103: advance the hang timer, or close the gate once it has run out
hang_timer(g, c) ==
    IF g.sql_open_time < c.sql_duration
    THEN Gate(g.sql_open, g.has_voice, g.sql_open_time + c.frame_duration)
    ELSE Gate(FALSE, FALSE, g.sql_open_time)

CurrentGate == Gate(sql_open, has_voice, sql_open_time)

SetGate(g) ==
    /\ sql_open' = g.sql_open
    /\ has_voice' = g.has_voice
    /\ sql_open_time' = g.sql_open_time

(***************************************************************************)
(* The statements of the loop.                                             *)
(***************************************************************************)
\* Line 80: frame = in_stream.read(chunk_size)
Read ==
    /\ pc = "read"
    /\ nframes < MaxFrames
    /\ \E f \in SourceFrames(cfg) :
        /\ frame' = f
        /\ onScript' = (onScript /\ (IF nframes = 0 THEN f = LoudFrame ELSE f = SilentFrame))
    /\ nframes' = nframes + 1
    /\ pc' = "squelch"
    /\ sq' = "none"
    /\ asked' = FALSE
    /\ ans' = FALSE
    /\ written' = FALSE
    /\ events' = {}
    /\ UNCHANGED <<cfg, gate, sink, resources, speechSinceOpen, loudRun, closedInRun,
                   quietRun>>

\* Line 80 raising: the device fails
ReadError ==
    /\ pc = "read"
    /\ Unwind("DeviceError")

\* Lines 82-89: the squelch check, the opening of the gate and the `continue`
SquelchCheck ==
    /\ pc = "squelch"
    /\ ~squelch_raises(frame)
    /\ LET s == squelch(frame, sql_threshold(cfg))
           g == squelch_step(CurrentGate, s)
       IN  /\ sq' = s
           /\ SetGate(g)
           /\ events' = IF s /\ ~sql_open THEN events \cup {"SQL open"} ELSE events
           /\ pc' = after_gate(g.sql_open)
           /\ speechSinceOpen' = IF s /\ ~sql_open THEN FALSE ELSE speechSinceOpen
           /\ loudRun' = IF s THEN loudRun + 1 ELSE 0
           /\ closedInRun' = IF s /\ loudRun > 0 THEN closedInRun ELSE FALSE
           /\ quietRun' = IF s THEN 0 ELSE IF sql_open THEN quietRun + 1 ELSE quietRun
    /\ UNCHANGED <<cfg, frame, sink, resources, nframes, asked, ans, written, onScript>>

\* Line 82 raising: max() of the empty sample list
SquelchError ==
    /\ pc = "squelch"
    /\ squelch_raises(frame)
    /\ Unwind("ValueError")

\* Lines 91-93: use_vad and not has_voice and vad.is_speech(frame, rate)
VadCheck ==
    /\ pc = "vad"
    /\ IF cfg.use_vad /\ ~has_voice
       THEN \E a \in BOOLEAN :
               /\ asked' = TRUE
               /\ ans' = a
               /\ has_voice' = a
               /\ events' = IF a THEN events \cup {"Voice detected"} ELSE events
               /\ speechSinceOpen' = (speechSinceOpen \/ a)
       ELSE UNCHANGED <<asked, ans, has_voice, events, speechSinceOpen>>
    /\ pc' = "write"
    /\ UNCHANGED <<cfg, frame, sql_open, sql_open_time, sink, resources, nframes, sq,
                   written, onScript, loudRun, closedInRun, quietRun>>

\* Line 91 raising: the classifier rejects the frame
VadError ==
    /\ pc = "vad"
    /\ cfg.use_vad /\ ~has_voice
    /\ Unwind("Error")

\* Lines 95-96: wav_out.writeframes(frame) when the frame is to be emitted
WriteFrame ==
    /\ pc = "write"
    /\ IF emit(cfg.use_vad, has_voice)
       THEN /\ sink' = Append(sink, [n |-> nframes, data |-> frame])
            /\ written' = TRUE
       ELSE UNCHANGED <<sink, written>>
    /\ pc' = "timer"
    /\ UNCHANGED <<cfg, frame, gate, resources, nframes, sq, asked, ans, events, monitors>>

\* Line 96 raising: the sink fails
WriteError ==
    /\ pc = "write"
    /\ emit(cfg.use_vad, has_voice)
    /\ Unwind("IOError")

\* Lines 98-103: the hang timer
HangTimer ==
    /\ pc = "timer"
    /\ LET g == hang_timer(CurrentGate, cfg)
       IN  /\ SetGate(g)
           /\ events' = IF ~g.sql_open THEN events \cup {"SQL closed"} ELSE events
           /\ closedInRun' = (closedInRun \/ (~g.sql_open /\ sq = TRUE))
    /\ pc' = "read"
    /\ UNCHANGED <<cfg, frame, sink, resources, nframes, sq, asked, ans, written,
                   speechSinceOpen, onScript, loudRun, quietRun>>

\* SIGINT: KeyboardInterrupt is raised in the main thread between any two bytecodes
KeyboardInterrupt ==
    /\ pc # "done"
    /\ Unwind("KeyboardInterrupt")

Next ==
    \/ Read
    \/ ReadError
    \/ SquelchCheck
    \/ SquelchError
    \/ VadCheck
    \/ VadError
    \/ WriteFrame
    \/ WriteError
    \/ HangTimer
    \/ KeyboardInterrupt

Spec == Init /\ [][Next]_vars

(***************************************************************************)
(* The squelch check alone, on every short frame over a few byte values:   *)
(* the loop stands at line 82 with a frame just read.                      *)
(***************************************************************************)
MaxSquelchLen == 4   \* longest frame handed to the squelch check alone

\* Bytes that build the samples 0, 1, -1, -32768, 16422, 16423 and neighbours
Bytes == {0, 1, 38, 39, 64, 128, 255}

RECURSIVE ByteSeqs(_)
ByteSeqs(n) ==
    IF n = 0 THEN {<< >>}
    ELSE LET shorter == ByteSeqs(n - 1)
         IN  shorter \cup {Append(f, b) : f \in {g \in shorter : Len(g) = n - 1}, b \in Bytes}

SquelchFrames == ByteSeqs(MaxSquelchLen)

SquelchConfigs ==
    [sql_duration : {DefaultSqlDuration}, frame_duration : {DefaultFrameDuration},
     sql_threshold_db : {DefaultThresholdDb, -20, -6, 6}, use_vad : {FALSE}]

\* Line 82 about to run on the first frame of a session, the gate still closed
InitSquelch ==
    /\ cfg \in SquelchConfigs
    /\ pc = "squelch"
    /\ frame \in SquelchFrames
    /\ has_voice = FALSE
    /\ sql_open = FALSE
    /\ sql_open_time = 0
    /\ sink = << >>
    /\ wav_open = TRUE
    /\ in_stream_open = TRUE
    /\ exc = "None"
    /\ raised = "None"
    /\ exitPc = "none"
    /\ nframes = 1
    /\ sq = "none"
    /\ asked = FALSE
    /\ ans = FALSE
    /\ written = FALSE
    /\ events = {}
    /\ speechSinceOpen = FALSE
    /\ onScript = TRUE
    /\ loudRun = 0
    /\ closedInRun = FALSE
    /\ quietRun = 0

NextSquelch ==
    \/ SquelchCheck
    \/ SquelchError

SpecSquelch == InitSquelch /\ [][NextSquelch]_vars

(***************************************************************************)
(* Vocabulary of the properties.                                           *)
(***************************************************************************)
\* The loop has finished a frame and is about to read the next one
FrameDone == pc = "read" /\ nframes >= 1

\* Arrival indices of the frames in the sink
SinkIdx == {sink[i].n : i \in 1..Len(sink)}

\* squelchDurationMs=300, frameDurationMs=30, useVoiceGate=false, and a threshold
\* the loud frame reaches
ScenarioCfg ==
    /\ cfg.sql_duration = DefaultSqlDuration
    /\ cfg.frame_duration = DefaultFrameDuration
    /\ cfg.sql_threshold_db = DefaultThresholdDb
    /\ ~cfg.use_vad

\* The session of the scenario: one loud frame, then silent frames only
OnScenario == ScenarioCfg /\ onScript

(***************************************************************************)
(* C1.  Scenario 300 ms / 30 ms / no voice gate, one loud frame then ten   *)
(* silent frames.                                                          *)
(***************************************************************************)
\* C1 as stated: frames 1 to 10 are written to the sink and frame 11 is not.
C1_Frame11NotWritten ==
    (OnScenario /\ FrameDone) =>
        /\ \A i \in 1..Min(nframes, 10) : i \in SinkIdx
        /\ nframes = 11 => 11 \notin SinkIdx

\* C1 as amended: frames 1 to 10 are written to the sink, and so is frame 11: the
\* write of line 96 precedes the close of lines 100-103 in the step of frame 11.
C1_Frames1To11Written ==
    (OnScenario /\ FrameDone /\ nframes <= 11) =>
        /\ SinkIdx = 1..nframes
        /\ written

C1_Witness ==
    OnScenario /\ FrameDone /\ nframes = 11 /\ written /\ 11 \in SinkIdx

(***************************************************************************)
(* C2.  Same scenario: "SQL open" is logged on frame 1, the gate is open   *)
(* after each of frames 1..10 with sql_open_time = 300 after frame 10, and *)
(* the gate closes ("SQL closed", sql_open = FALSE) in frame 11, not       *)
(* earlier.                                                                *)
(***************************************************************************)
C2_ClosesAtFrame11 ==
    OnScenario =>
        /\ (FrameDone /\ nframes = 1) => "SQL open" \in events
        /\ (FrameDone /\ nframes \in 1..10) =>
              /\ sql_open
              /\ "SQL closed" \notin events
              /\ sql_open_time = nframes * cfg.frame_duration
        /\ (FrameDone /\ nframes = 10) => sql_open_time = cfg.sql_duration
        /\ (nframes = 11 /\ pc \in {"vad", "write", "timer"}) =>
              sql_open /\ "SQL closed" \notin events
        /\ (FrameDone /\ nframes = 11) => ~sql_open /\ "SQL closed" \in events

C2_Witness ==
    OnScenario /\ FrameDone /\ nframes = 11 /\ ~sql_open /\ "SQL closed" \in events

(***************************************************************************)
(* C3.  With the voice gate on: a frame is written only if the classifier  *)
(* has answered true since the gate last opened; "Voice detected" is       *)
(* logged on exactly the frame the classifier answers true for; and from   *)
(* that frame on every frame that passes the gate is written.              *)
(***************************************************************************)
C3_VoiceGate ==
    cfg.use_vad =>
        /\ written => speechSinceOpen
        /\ ("Voice detected" \in events) <=> (asked /\ ans)
        /\ (pc = "timer" /\ speechSinceOpen) => written
        /\ (pc = "timer" /\ ~speechSinceOpen) => ~written

\* A silent frame of the hang time is written after an earlier frame was confirmed
C3_Witness ==
    /\ cfg.use_vad /\ pc = "timer"
    /\ written /\ ~asked /\ sq = FALSE
    /\ Len(sink) >= 2 /\ sink[1].n > 1

C5_LoudRunStaysOpen ==
    (FrameDone /\ loudRun >= 1) => (sql_open /\ ~closedInRun)

\* C5 as amended: the same for every configuration with sql_duration > 0.
C5_LoudRunStaysOpenPositive ==
    (FrameDone /\ loudRun >= 1 /\ cfg.sql_duration > 0) => (sql_open /\ ~closedInRun)

\* A run of loud frames longer than the hang time
C5_Witness ==
    /\ FrameDone /\ cfg.sql_duration > 0
    /\ loudRun * cfg.frame_duration > cfg.sql_duration + cfg.frame_duration
    /\ sql_open

(***************************************************************************)
(* C7.  An interrupt never leaves a frame half processed: whenever the     *)
(* loop is left by KeyboardInterrupt, it was at the read statement.        *)
(***************************************************************************)
C7_NoTornFrame ==
    exc = "KeyboardInterrupt" => exitPc = "read"

(***************************************************************************)
(* C8.  When the session has ended, the input stream is closed and the     *)
(* sink is closed.                                                         *)
(***************************************************************************)
C8_ResourcesReleased ==
    pc = "done" => (~wav_open /\ ~in_stream_open)

(***************************************************************************)
(* C9.  A KeyboardInterrupt ends the session normally: nothing is raised   *)
(* to the caller, the sink is closed, and the step that leaves the loop    *)
(* keeps every frame already in the sink.                                  *)
(***************************************************************************)
C9_InterruptEndsCleanly ==
    /\ [](exc = "KeyboardInterrupt" => (pc = "done" /\ raised = "None" /\ ~wav_open))
    /\ [][exc' = "KeyboardInterrupt" => sink' = sink]_vars

C9_Witness ==
    exc = "KeyboardInterrupt" /\ pc = "done" /\ Len(sink) >= 2 /\ exitPc = "write"

(***************************************************************************)
(* C10.  A failing read or a failing sink write ends the loop at that      *)
(* frame and reaches the caller: the exception is raised, the failing step *)
(* reads and writes nothing, and nothing is read or written afterwards.    *)
(***************************************************************************)
C10_FailureSurfaces ==
    /\ [](exc \in {"DeviceError", "IOError"} => (pc = "done" /\ raised = exc))
    /\ [][exc' \in {"DeviceError", "IOError"} => (nframes' = nframes /\ sink' = sink)]_vars
    /\ [][pc = "done" => (pc' = "done" /\ nframes' = nframes /\ sink' = sink)]_vars

C10_Witness ==
    exc = "IOError" /\ raised = "IOError" /\ pc = "done" /\ Len(sink) >= 1

(***************************************************************************)
(* Vocabulary of the squelch properties, written from the byte layout and  *)
(* not from frame_to_wave.                                                 *)
(***************************************************************************)
\* The squelch check of the current frame has returned
Decided == pc \in {"vad", "write", "timer"} \/ FrameDone

\* Two bytes, low one first, as a signed 16-bit number
S16(lo, hi) == IF hi >= 128 THEN lo + 256 * hi - 65536 ELSE lo + 256 * hi

\* 0-based byte offsets 0, 2, 4, ... strictly below len(f) // 2
DecodedOffsets(f) == {i \in 0..(Len(f) \div 2 - 1) : i % 2 = 0}

\* The sample of the 2-byte group at the 0-based offset i
SampleAt(f, i) == S16(f[i + 1], f[i + 2])

(***************************************************************************)
(* C11.  A frame that decodes to no sample makes the squelch check raise:  *)
(* the loop is left at line 82, the exception reaches the caller, the      *)
(* frame is not in the sink, and the step never counts as "not open".      *)
(***************************************************************************)
C11_EmptyFrameRaises ==
    /\ [](exc = "ValueError" =>
            /\ pc = "done" /\ exitPc = "squelch"
            /\ raised = "ValueError"
            /\ DecodedOffsets(frame) = {}
            /\ sq = "none"
            /\ nframes \notin SinkIdx)
    /\ [][(pc = "squelch" /\ DecodedOffsets(frame) = {}) =>
            (pc' = "done" /\ exc' \in {"ValueError", "KeyboardInterrupt"})]_vars

C11_Witness ==
    exc = "ValueError" /\ raised = "ValueError" /\ pc = "done" /\ Len(frame) = 0

C13_TimerZeroAfterLoudFrame ==
    (FrameDone /\ sq = TRUE) => sql_open_time = 0

\* C13 as amended: the timer grows only in the hang-timer statement of a frame that
\* passed the gate, by frame_duration; the step of a frame that satisfies squelch
\* resets it to 0 and then advances it once, so it is frame_duration when that step
\* ends (0 only if sql_duration <= 0, when the step closes the gate instead).
C13_TimerAdvancesOnEveryOpenFrame ==
    /\ []((FrameDone /\ sq = TRUE) =>
            sql_open_time = IF cfg.sql_duration > 0 THEN cfg.frame_duration ELSE 0)
    /\ [][sql_open_time' > sql_open_time =>
            (pc = "timer" /\ sql_open
             /\ sql_open_time' = sql_open_time + cfg.frame_duration)]_vars

\* A frame satisfies squelch while the gate is already open
C13_Witness ==
    /\ FrameDone /\ sq = TRUE /\ "SQL open" \notin events
    /\ cfg.sql_duration > 0 /\ sql_open_time = cfg.frame_duration /\ sql_open_time > 0

(***************************************************************************)
(* C14.  With the gate closed, the step of a frame that fails squelch goes *)
(* straight back to the read: the gate, the timer and the sink keep their  *)
(* values, nothing is logged, the classifier is not queried.               *)
(***************************************************************************)
C14_ClosedQuietStepIsNoOp ==
    [][(pc = "squelch" /\ ~sql_open /\ pc' \in {"read", "vad"} /\ sq' = FALSE) =>
         /\ pc' = "read"
         /\ UNCHANGED <<has_voice, sql_open, sql_open_time, sink>>
         /\ events' = {}
         /\ ~asked' /\ ~written']_vars

\* A frame is skipped after an earlier open period left the timer at its last value
C14_Witness ==
    /\ FrameDone /\ sq = FALSE /\ ~sql_open /\ "SQL closed" \notin events
    /\ sql_open_time > 0 /\ ~written /\ Len(sink) >= 1

(***************************************************************************)
(* C15.  The per-frame emit rule: a frame is in the sink exactly when it   *)
(* passed the gate and (use_vad is off or has_voice holds after the        *)
(* classifier query); the frame that logs "Voice detected" is written, the *)
(* unconfirmed frame before it is not; the sink holds each frame at most   *)
(* once, in arrival order.                                                 *)
(***************************************************************************)
C15_EmitRule ==
    /\ \A i \in 1..(Len(sink) - 1) : sink[i].n < sink[i + 1].n
    /\ \A i \in 1..Len(sink) : sink[i].n <= nframes
    /\ written <=> (nframes \in SinkIdx)
    /\ pc \in {"squelch", "vad", "write"} => ~written
    /\ pc = "timer" => (written <=> (sql_open /\ (~cfg.use_vad \/ has_voice)))
    /\ (FrameDone /\ sq = FALSE /\ ~sql_open /\ "SQL closed" \notin events) => ~written
    /\ ((pc = "timer" \/ FrameDone) /\ "Voice detected" \in events) => written
    /\ (pc = "timer" /\ asked /\ ans /\ "SQL open" \notin events) =>
          (nframes - 1) \notin SinkIdx

\* The classifier accepts a frame after an unconfirmed frame of the same open period
C15_Witness ==
    /\ cfg.use_vad /\ pc = "timer" /\ asked /\ ans /\ written
    /\ "SQL open" \notin events /\ nframes >= 2 /\ (nframes - 1) \notin SinkIdx

(***************************************************************************)
(* C16.  Which bytes of a frame the squelch decision reads.                *)
(***************************************************************************)
\* The frame f with every byte after the first k set to zero
ZeroedAfter(f, k) == [i \in 1..Len(f) |-> IF i <= k THEN f[i] ELSE 0]

\* frame_to_wave yields one sample per 2-byte group at offsets 0, 2, 4, ... strictly
\* below len(frame) // 2
DecodesListedGroups(f) ==
    LET w == frame_to_wave(f)
    IN  /\ Len(w) = Cardinality(DecodedOffsets(f))
        /\ \A k \in 1..Len(w) : w[k] = SampleAt(f, 2 * (k - 1))

\* Bytes covered by the decoded groups: 2 * ceil((len(f) // 2) / 2)
BytesRead(f) == 2 * Cardinality(DecodedOffsets(f))

\* C16 as stated: the result is a function of the first len(frame) // 2 bytes.  Every
\* frame agrees on its first half with the frame zeroed after it, so two frames of
\* one length that agree on the first half get one result exactly when each gets
\* the result of its zeroed frame.
C16_FirstHalfOnly ==
    Decided =>
        /\ DecodesListedGroups(frame)
        /\ sq = squelch(ZeroedAfter(frame, Len(frame) \div 2), sql_threshold(cfg))

\* C16 as amended: the result is a function of the bytes of the decoded groups, the
\* first 2 * ceil((len(frame) // 2) / 2) bytes: the first half when len(frame) // 2
\* is even, one byte more when it is odd; samples of later groups never open.
C16_DecodedBytesOnly ==
    Decided =>
        /\ DecodesListedGroups(frame)
        /\ BytesRead(frame) \in {Len(frame) \div 2, Len(frame) \div 2 + 1}
        /\ sq = squelch(ZeroedAfter(frame, BytesRead(frame)), sql_threshold(cfg))
        /\ (\A i \in DecodedOffsets(frame) : SampleAt(frame, i) < sql_threshold(cfg))
              => sq = FALSE

\* The only sample that reaches the threshold is in the second half of a 4-byte frame
C16_Witness ==
    /\ Decided /\ Len(frame) = 4 /\ sq = FALSE
    /\ S16(frame[3], frame[4]) >= sql_threshold(cfg)

(***************************************************************************)
(* C17.  A configuration whose chunk size is not positive is rejected with *)
(* ConfigError before any frame is read: no frame is ever read, and the    *)
(* squelch check is never reached, under such a configuration.             *)
(***************************************************************************)
C17_ChunkSizeChecked ==
    chunk_size(cfg) <= 0 => (nframes = 0 /\ pc # "squelch")

(***************************************************************************)
(* C18.  has_voice implies sql_open, has_voice is never set with use_vad   *)
(* off, a close clears has_voice, and an open period starts unconfirmed:   *)
(* with use_vad on a frame is written only after the classifier answered   *)
(* true in the current open period.                                        *)
(***************************************************************************)
C18_VoiceOnlyWhileOpen ==
    /\ has_voice => sql_open
    /\ ~cfg.use_vad => ~has_voice
    /\ "SQL closed" \in events => (~has_voice /\ ~sql_open)
    /\ (pc = "vad" /\ "SQL open" \in events) => ~has_voice
    /\ has_voice => speechSinceOpen
    /\ (cfg.use_vad /\ written) => speechSinceOpen

\* An unconfirmed frame of a later open period is held back, after an earlier
\* period was confirmed and written
C18_Witness ==
    /\ cfg.use_vad /\ pc = "timer" /\ ~written /\ ~speechSinceOpen
    /\ Len(sink) >= 1

(***************************************************************************)
(* C19.  Order of the log lines.  "SQL open" is logged exactly by the      *)
(* steps that take sql_open from false to true and "SQL closed" exactly by *)
(* the steps that take it from true to false, so the two alternate,        *)
(* starting with "SQL open", and a frame that satisfies squelch with the   *)
(* gate open logs nothing.  "Voice detected" is logged exactly by the      *)
(* steps that set has_voice, with the gate open, and has_voice is cleared  *)
(* only by a step that logs "SQL closed": at most one "Voice detected"     *)
(* between an open and the next close, none outside.                       *)
(***************************************************************************)
Logs(line) == line \in events' /\ line \notin events

C19_EventOrder ==
    [][/\ Logs("SQL open") <=> (~sql_open /\ sql_open')
       /\ Logs("SQL closed") <=> (sql_open /\ ~sql_open')
       /\ Logs("Voice detected") <=> (~has_voice /\ has_voice')
       /\ Logs("Voice detected") => (sql_open /\ sql_open')
       /\ (has_voice /\ ~has_voice') => Logs("SQL closed")]_vars

\* The gate opens a second time
C19_Witness ==
    /\ ~cfg.use_vad /\ FrameDone /\ "SQL open" \in events /\ sql_open
    /\ Len(sink) >= 2 /\ sink[1].n < nframes - 1

(***************************************************************************)
(* C20.  Bounded hang time, for sql_duration > 0 and frame_duration > 0:   *)
(* after the last frame that satisfied squelch the gate stays open through *)
(* the first ceil(sql_duration / frame_duration) - 1 frames that fail it   *)
(* and closes in the step of the next one; it is never open after more;    *)
(* sql_open_time is a multiple of frame_duration below                     *)
(* sql_duration + frame_duration.                                          *)
(***************************************************************************)
Ceil(a, b) == (a + b - 1) \div b

C20_BoundedHang ==
    (cfg.sql_duration > 0 /\ cfg.frame_duration > 0) =>
        LET N == Ceil(cfg.sql_duration, cfg.frame_duration)
        IN  /\ sql_open_time % cfg.frame_duration = 0
            /\ sql_open_time < cfg.sql_duration + cfg.frame_duration
            /\ quietRun <= N
            /\ (FrameDone /\ sql_open) => quietRun < N
            /\ (FrameDone /\ sq = FALSE /\ quietRun \in 1..(N - 1)) =>
                  (sql_open /\ "SQL closed" \notin events)
            /\ (FrameDone /\ sq = FALSE /\ quietRun = N) => ~sql_open
            /\ (FrameDone /\ "SQL closed" \in events) => (sq = FALSE /\ quietRun = N)

\* The gate closes on the second quiet frame of a 50 ms hang time with 30 ms frames
C20_Witness ==
    /\ FrameDone /\ sq = FALSE /\ "SQL closed" \in events
    /\ cfg.sql_duration % cfg.frame_duration # 0
    /\ quietRun = Ceil(cfg.sql_duration, cfg.frame_duration) /\ quietRun > 1

====
